---------------------------- MODULE Spec2Model ----------------------------
(***************************************************************************)
(* Model of lib/validators.py, class ResponseValidator: the lookup of a    *)
(* response schema for (method, path) and the recursive validation of a    *)
(* JSON value against a schema fragment.                                   *)
(*                                                                         *)
(* Representation.  A Python str is a sequence of one-character strings.   *)
(* A JSON value is a record tagged by kind; a Python dict used as a schema *)
(* fragment is a record that has exactly the keys the dict has, so that    *)
(* `k in schema` is  k \in DOMAIN schema.  An ordered mapping whose order  *)
(* the code observes (paths, properties) is a sequence of key/value pairs. *)
(* An error message is a sequence of tokens: the literal pieces of the     *)
(* f-string are one token each, the interpolated name is its characters.   *)
(***************************************************************************)
EXTENDS Integers, Sequences, FiniteSets, TLC

VARIABLES schema, call, ret

vars == <<schema, call, ret>>

-----------------------------------------------------------------------------
(* JSON values as json.load builds them                                    *)

JNull == [kind |-> "null"]

JBool(b) == [kind |-> "bool", b |-> b]

JInt(n) == [kind |-> "int", n |-> n]

\* a float is kept as twice its value: JFloat(5) is 2.5, JFloat(10) is 5.0
JFloat(t) == [kind |-> "float", twice |-> t]

JStr(s) == [kind |-> "str", s |-> s]

JList(items) == [kind |-> "list", items |-> items]

\* d is a function from key (a str) to value
JDict(d) == [kind |-> "dict", d |-> d]

EmptyDict == JDict(<< >>)

\* isinstance(value, str)
IsStr(v) == v.kind = "str"

\* isinstance(value, (int, float)): bool is a subclass of int
IsIntOrFloat(v) == v.kind \in {"int", "float", "bool"}

\* isinstance(value, int): bool is a subclass of int
IsInt(v) == v.kind \in {"int", "bool"}

\* isinstance(value, bool)
IsBool(v) == v.kind = "bool"

\* isinstance(value, list)
IsList(v) == v.kind = "list"

\* isinstance(value, dict)
IsDict(v) == v.kind = "dict"

\* twice the numeric value Python compares with: True is 1, False is 0
Twice(v) ==
  CASE v.kind = "bool" -> (IF v.b THEN 2 ELSE 0)
    [] v.kind = "int" -> 2 * v.n
    [] v.kind = "float" -> v.twice

\* value < bound, both numeric
NumLess(v, w) == Twice(v) < Twice(w)

-----------------------------------------------------------------------------
(* str() of the numbers interpolated into messages                         *)

DigitChar(d) == <<"0", "1", "2", "3", "4", "5", "6", "7", "8", "9">>[d + 1]

RECURSIVE NatDigits(_)
NatDigits(n) ==
  IF n < 10 THEN <<DigitChar(n)>>
  ELSE NatDigits(n \div 10) \o <<DigitChar(n % 10)>>

\* str(n) of an int
IntStr(n) == IF n < 0 THEN <<"-">> \o NatDigits(0 - n) ELSE NatDigits(n)

Abs(n) == IF n < 0 THEN 0 - n ELSE n

\* str(x) of a float kept as twice its value
FloatStr(t) ==
  (IF t < 0 THEN <<"-">> ELSE << >>)
    \o NatDigits(Abs(t) \div 2)
    \o <<".">>
    \o (IF Abs(t) % 2 = 1 THEN <<"5">> ELSE <<"0">>)

\* f"{schema['minimum']}" of a JSON number
NumStr(v) == IF v.kind = "float" THEN FloatStr(v.twice) ELSE IntStr(v.n)

-----------------------------------------------------------------------------
(* Character classes of the regular expressions                            *)

Digit == {"0", "1", "2", "3", "4", "5", "6", "7", "8", "9"}

LowerAlpha ==
  {"a", "b", "c", "d", "e", "f", "g", "h", "i", "j", "k", "l", "m",
   "n", "o", "p", "q", "r", "s", "t", "u", "v", "w", "x", "y", "z"}

UpperAlpha ==
  {"A", "B", "C", "D", "E", "F", "G", "H", "I", "J", "K", "L", "M",
   "N", "O", "P", "Q", "R", "S", "T", "U", "V", "W", "X", "Y", "Z"}

Alpha == LowerAlpha \cup UpperAlpha

\* [0-9a-f] under re.I
HexDigit == Digit \cup {"a", "b", "c", "d", "e", "f", "A", "B", "C", "D", "E", "F"}

\* \s
Whitespace == {" ", "\t", "\n", "\r", "\f"}

\* [a-zA-Z0-9._%+-]
EmailLocal == Alpha \cup Digit \cup {".", "_", "%", "+", "-"}

\* [a-zA-Z0-9.-]
EmailDomain == Alpha \cup Digit \cup {".", "-"}

\* [^\s/$.?#]
UrlFirst(c) == c \notin Whitespace \cup {"/", "$", ".", "?", "#"}

\* the positions at which `$` matches: the end, or just before a final newline
DollarEnds(s) ==
  {Len(s)} \cup (IF Len(s) > 0 /\ s[Len(s)] = "\n" THEN {Len(s) - 1} ELSE {})

AllIn(s, lo, hi, set) == \A i \in lo..hi : s[i] \in set

HasPrefix(s, p) == Len(s) >= Len(p) /\ SubSeq(s, 1, Len(p)) = p

\* re.match(r'^\d{4}-\d{2}-\d{2}T\d{2}:\d{2}:\d{2}', value)
MatchDateTime(s) ==
  /\ Len(s) >= 19
  /\ \A i \in {1, 2, 3, 4, 6, 7, 9, 10, 12, 13, 15, 16, 18, 19} : s[i] \in Digit
  /\ s[5] = "-" /\ s[8] = "-" /\ s[11] = "T" /\ s[14] = ":" /\ s[17] = ":"

\* re.match(r'^[a-zA-Z0-9._%+-]+@[a-zA-Z0-9.-]+\.[a-zA-Z]{2,}$', value)
MatchEmail(s) ==
  \E e \in DollarEnds(s) :
    \E at \in 2..e :
      \E dot \in (at + 2)..(e - 2) :
        /\ AllIn(s, 1, at - 1, EmailLocal)
        /\ s[at] = "@"
        /\ AllIn(s, at + 1, dot - 1, EmailDomain)
        /\ s[dot] = "."
        /\ AllIn(s, dot + 1, e, Alpha)

\* re.match(r'^[0-9a-f]{8}-[0-9a-f]{4}-[0-9a-f]{4}-[0-9a-f]{4}-[0-9a-f]{12}$', value, re.I)
MatchUuid(s) ==
  /\ 36 \in DollarEnds(s)
  /\ \A i \in 1..36 :
       IF i \in {9, 14, 19, 24} THEN s[i] = "-" ELSE s[i] \in HexDigit

\* after the scheme: [^\s/$.?#] . [^\s]* $
UrlRest(s, from) ==
  \E e \in DollarEnds(s) :
    /\ e >= from + 1
    /\ UrlFirst(s[from])
    /\ s[from + 1] # "\n"
    /\ \A i \in (from + 2)..e : s[i] \notin Whitespace

\* re.match(r'^https?://[^\s/$.?#].[^\s]*$', value)
MatchUrl(s) ==
  \/ HasPrefix(s, <<"h", "t", "t", "p", ":", "/", "/">>) /\ UrlRest(s, 8)
  \/ HasPrefix(s, <<"h", "t", "t", "p", "s", ":", "/", "/">>) /\ UrlRest(s, 9)

\* f"Property {name} <text>"
PropertyMsg(name, text) == <<"Property ">> \o name \o <<text>>

\* f"Property {name} <text>{n})"
PropertyLimitMsg(name, text, n) == <<"Property ">> \o name \o <<text>> \o n \o <<")">>

ValidateStringFormat(name, value, format_type) ==
  CASE format_type = "date-time" ->
         (IF ~MatchDateTime(value)
          THEN <<PropertyMsg(name, " should be in ISO date-time format")>>
          ELSE << >>)
    [] format_type = "email" ->
         (IF ~MatchEmail(value)
          THEN <<PropertyMsg(name, " should be a valid email address")>>
          ELSE << >>)
    [] format_type = "uuid" ->
         (IF ~MatchUuid(value)
          THEN <<PropertyMsg(name, " should be a valid UUID")>>
          ELSE << >>)
    [] format_type \in {"uri", "url"} ->
         (IF ~MatchUrl(value)
          THEN <<PropertyMsg(name, " should be a valid URL")>>
          ELSE << >>)
    [] OTHER -> << >>

-----------------------------------------------------------------------------
(* _validate_property                                                      *)

Has(d, key) == key \in DOMAIN d

\* 'nullable' in schema and schema['nullable']
IsNullable(fragment) == Has(fragment, "nullable") /\ fragment.nullable

\* schema_type = schema.get('type'); if schema_type:
HasType(fragment) == Has(fragment, "type") /\ fragment.type # ""

\* f"{name}[{i}]" for the element at Python index i
IndexName(name, i) == name \o <<"[">> \o IntStr(i) \o <<"]">>

\* f"{name}.{prop_name}"
DottedName(name, prop) == name \o <<".">> \o prop

\* [f"  - {err}" for err in any_errors]
IndentAll(errs) == [i \in 1..Len(errs) |-> <<"  - ">> \o errs[i]]

\* mutant: the length checks are skipped once the format check has failed
StringErrors_ElseIf(name, value, fragment) ==
  IF ~IsStr(value) THEN <<PropertyMsg(name, " should be a string")>>
  ELSE
    LET format_errors == IF Has(fragment, "format")
                         THEN ValidateStringFormat(name, value.s, fragment.format)
                         ELSE << >>
    IN IF format_errors # << >> THEN format_errors
       ELSE
         (IF Has(fragment, "minLength") /\ Len(value.s) < fragment.minLength
          THEN <<PropertyLimitMsg(name, " is too short (min: ", IntStr(fragment.minLength))>>
          ELSE << >>)
         \o (IF Has(fragment, "maxLength") /\ Len(value.s) > fragment.maxLength
             THEN <<PropertyLimitMsg(name, " is too long (max: ", IntStr(fragment.maxLength))>>
             ELSE << >>)

StringErrors(name, value, fragment) ==
  IF ~IsStr(value) THEN <<PropertyMsg(name, " should be a string")>>
  ELSE
    (IF Has(fragment, "format")
     THEN ValidateStringFormat(name, value.s, fragment.format)
     ELSE << >>)
    \o (IF Has(fragment, "minLength") /\ Len(value.s) < fragment.minLength
        THEN <<PropertyLimitMsg(name, " is too short (min: ", IntStr(fragment.minLength))>>
        ELSE << >>)
    \o (IF Has(fragment, "maxLength") /\ Len(value.s) > fragment.maxLength
        THEN <<PropertyLimitMsg(name, " is too long (max: ", IntStr(fragment.maxLength))>>
        ELSE << >>)

\* mutant: the integer test looks at the value, not at its type (5.0 passes)
NumberErrors_WholeFloatOk(name, value, fragment) ==
  IF ~IsIntOrFloat(value) THEN <<PropertyMsg(name, " should be a number")>>
  ELSE
    (IF fragment.type = "integer" /\ Twice(value) % 2 # 0
     THEN <<PropertyMsg(name, " should be an integer")>>
     ELSE << >>)
    \o (IF Has(fragment, "minimum") /\ NumLess(value, fragment.minimum)
        THEN <<PropertyLimitMsg(name, " is too small (min: ", NumStr(fragment.minimum))>>
        ELSE << >>)
    \o (IF Has(fragment, "maximum") /\ NumLess(fragment.maximum, value)
        THEN <<PropertyLimitMsg(name, " is too large (max: ", NumStr(fragment.maximum))>>
        ELSE << >>)

NumberErrors(name, value, fragment) ==
  IF ~IsIntOrFloat(value) THEN <<PropertyMsg(name, " should be a number")>>
  ELSE
    (IF fragment.type = "integer" /\ ~IsInt(value)
     THEN <<PropertyMsg(name, " should be an integer")>>
     ELSE << >>)
    \o (IF Has(fragment, "minimum") /\ NumLess(value, fragment.minimum)
        THEN <<PropertyLimitMsg(name, " is too small (min: ", NumStr(fragment.minimum))>>
        ELSE << >>)
    \o (IF Has(fragment, "maximum") /\ NumLess(fragment.maximum, value)
        THEN <<PropertyLimitMsg(name, " is too large (max: ", NumStr(fragment.maximum))>>
        ELSE << >>)

\* mutant: the numbers 0 and 1 pass for booleans
BooleanErrors_TruthyInts(name, value) ==
  IF ~(IsBool(value) \/ value \in {JInt(0), JInt(1)})
  THEN <<PropertyMsg(name, " should be a boolean")>>
  ELSE << >>

BooleanErrors(name, value) ==
  IF ~IsBool(value) THEN <<PropertyMsg(name, " should be a boolean")>> ELSE << >>

RECURSIVE ValidateProperty(_, _, _)

\* for i, item in enumerate(value): errors.extend(_validate_property(f"{name}[{i}]", item, items))
\* mutant: the element loop stops at the first element that has errors
RECURSIVE ItemErrors_StopAtFirst(_, _, _, _)
ItemErrors_StopAtFirst(name, list, items, i) ==
  IF i > Len(list) THEN << >>
  ELSE LET item_errors == ValidateProperty(IndexName(name, i - 1), list[i], items)
       IN IF item_errors # << >> THEN item_errors
          ELSE ItemErrors_StopAtFirst(name, list, items, i + 1)

RECURSIVE ItemErrors(_, _, _, _)
ItemErrors(name, list, items, i) ==
  IF i > Len(list) THEN << >>
  ELSE ValidateProperty(IndexName(name, i - 1), list[i], items)
       \o ItemErrors(name, list, items, i + 1)

ArrayErrors(name, value, fragment) ==
  IF ~IsList(value) THEN <<PropertyMsg(name, " should be an array")>>
  ELSE
    (IF Has(fragment, "items")
     THEN ItemErrors(name, value.items, fragment.items, 1)
     ELSE << >>)
    \o (IF Has(fragment, "minItems") /\ Len(value.items) < fragment.minItems
        THEN <<PropertyLimitMsg(name, " has too few items (min: ", IntStr(fragment.minItems))>>
        ELSE << >>)
    \o (IF Has(fragment, "maxItems") /\ Len(value.items) > fragment.maxItems
        THEN <<PropertyLimitMsg(name, " has too many items (max: ", IntStr(fragment.maxItems))>>
        ELSE << >>)

\* for prop_name, prop_spec in schema['properties'].items(): if prop_name in value: ...
RECURSIVE NestedPropertyErrors(_, _, _, _)
NestedPropertyErrors(name, d, properties, i) ==
  IF i > Len(properties) THEN << >>
  ELSE
    (IF properties[i].name \in DOMAIN d
     THEN ValidateProperty(DottedName(name, properties[i].name),
                           d[properties[i].name], properties[i].spec)
     ELSE << >>)
    \o NestedPropertyErrors(name, d, properties, i + 1)

\* for required_prop in schema['required']: if required_prop not in value: ...
\* mutant: a required key whose value is null counts as missing
RECURSIVE NestedRequiredErrors_NullIsMissing(_, _, _, _)
NestedRequiredErrors_NullIsMissing(name, d, required, i) ==
  IF i > Len(required) THEN << >>
  ELSE
    (IF required[i] \notin DOMAIN d \/ d[required[i]] = JNull
     THEN <<<<"Missing required property ">> \o DottedName(name, required[i])>>
     ELSE << >>)
    \o NestedRequiredErrors_NullIsMissing(name, d, required, i + 1)

RECURSIVE NestedRequiredErrors(_, _, _, _)
NestedRequiredErrors(name, d, required, i) ==
  IF i > Len(required) THEN << >>
  ELSE
    (IF required[i] \notin DOMAIN d
     THEN <<<<"Missing required property ">> \o DottedName(name, required[i])>>
     ELSE << >>)
    \o NestedRequiredErrors(name, d, required, i + 1)

\* mutant: a key the fragment does not declare is reported (additionalProperties: false)
ObjectErrors_Closed(name, value, fragment) ==
  IF ~IsDict(value) THEN <<PropertyMsg(name, " should be an object")>>
  ELSE
    (IF Has(fragment, "properties")
     THEN NestedPropertyErrors(name, value.d, fragment.properties, 1)
     ELSE << >>)
    \o (IF Has(fragment, "required")
        THEN NestedRequiredErrors(name, value.d, fragment.required, 1)
        ELSE << >>)
    \o (IF \E k \in DOMAIN value.d :
             ~Has(fragment, "properties")
             \/ \A i \in 1..Len(fragment.properties) : fragment.properties[i].name # k
        THEN <<PropertyMsg(name, " has unexpected properties")>>
        ELSE << >>)

ObjectErrors(name, value, fragment) ==
  IF ~IsDict(value) THEN <<PropertyMsg(name, " should be an object")>>
  ELSE
    (IF Has(fragment, "properties")
     THEN NestedPropertyErrors(name, value.d, fragment.properties, 1)
     ELSE << >>)
    \o (IF Has(fragment, "required")
        THEN NestedRequiredErrors(name, value.d, fragment.required, 1)
        ELSE << >>)

\* the `if schema_type:` block: the errors of the branch the declared type selects
TypeDispatch(name, value, fragment) ==
  IF ~HasType(fragment) THEN << >>
  ELSE
    CASE fragment.type = "string" -> StringErrors(name, value, fragment)
      [] fragment.type \in {"number", "integer"} -> NumberErrors(name, value, fragment)
      [] fragment.type = "boolean" -> BooleanErrors(name, value)
      [] fragment.type = "array" -> ArrayErrors(name, value, fragment)
      [] fragment.type = "object" -> ObjectErrors(name, value, fragment)
      [] OTHER -> << >>

\* mutant: no break, the last alternative decides any_valid
RECURSIVE AnyOfLoop_NoBreak(_, _, _, _, _)
AnyOfLoop_NoBreak(name, value, alternatives, i, any_errors) ==
  IF i > Len(alternatives)
  THEN [any_valid |-> Len(alternatives) > 0
                      /\ ValidateProperty(name, value, alternatives[Len(alternatives)]) = << >>,
        any_errors |-> any_errors]
  ELSE AnyOfLoop_NoBreak(name, value, alternatives, i + 1,
                         any_errors \o ValidateProperty(name, value, alternatives[i]))

\* mutant: any_errors = sub_errors, the errors of the earlier alternatives are lost
RECURSIVE AnyOfLoop_KeepLast(_, _, _, _, _)
AnyOfLoop_KeepLast(name, value, alternatives, i, any_errors) ==
  IF i > Len(alternatives) THEN [any_valid |-> FALSE, any_errors |-> any_errors]
  ELSE
    LET sub_errors == ValidateProperty(name, value, alternatives[i])
    IN  IF sub_errors = << >>
        THEN [any_valid |-> TRUE, any_errors |-> any_errors]
        ELSE AnyOfLoop_KeepLast(name, value, alternatives, i + 1, sub_errors)

\* the loop over schema['anyOf'], from alternative i on, any_errors collected so far:
\* the result is the final (any_valid, any_errors)
RECURSIVE AnyOfLoop(_, _, _, _, _)
AnyOfLoop(name, value, alternatives, i, any_errors) ==
  IF i > Len(alternatives) THEN [any_valid |-> FALSE, any_errors |-> any_errors]
  ELSE
    LET sub_errors == ValidateProperty(name, value, alternatives[i])
    IN  IF sub_errors = << >>
        THEN [any_valid |-> TRUE, any_errors |-> any_errors]
        ELSE AnyOfLoop(name, value, alternatives, i + 1, any_errors \o sub_errors)

\* mutant: schema.get('anyOf', []) without the `in` test
AnyOfErrors_DefaultEmpty(name, value, fragment) ==
  LET loop == AnyOfLoop(name, value,
                        IF Has(fragment, "anyOf") THEN fragment.anyOf ELSE << >>, 1, << >>)
  IN  IF ~loop.any_valid
      THEN <<PropertyMsg(name, " does not match any allowed schemas")>>
           \o IndentAll(loop.any_errors)
      ELSE << >>

\* the `if 'anyOf' in schema:` block: the errors it appends
\* mutant: an empty list of alternatives accepts every value
AnyOfErrors_EmptyAccepts(name, value, fragment) ==
  IF ~Has(fragment, "anyOf") \/ fragment.anyOf = << >> THEN << >>
  ELSE
    LET loop == AnyOfLoop(name, value, fragment.anyOf, 1, << >>)
    IN  IF ~loop.any_valid
        THEN <<PropertyMsg(name, " does not match any allowed schemas")>>
             \o IndentAll(loop.any_errors)
        ELSE << >>

AnyOfErrors(name, value, fragment) ==
  IF ~Has(fragment, "anyOf") THEN << >>
  ELSE
    LET loop == AnyOfLoop(name, value, fragment.anyOf, 1, << >>)
    IN  IF ~loop.any_valid
        THEN <<PropertyMsg(name, " does not match any allowed schemas")>>
             \o IndentAll(loop.any_errors)
        ELSE << >>

\* mutant: a null value of a nullable fragment falls through to the type checks
ValidateProperty_NullFallsThrough(name, value, fragment) ==
  IF value = JNull /\ ~IsNullable(fragment)
  THEN <<PropertyMsg(name, " cannot be null")>>
  ELSE TypeDispatch(name, value, fragment) \o AnyOfErrors(name, value, fragment)

\* mutant: anyOf is evaluated only when the type dispatch found nothing
ValidateProperty_AnyOfOnlyIfTypeOk(name, value, fragment) ==
  IF value = JNull
  THEN (IF IsNullable(fragment)
        THEN << >>
        ELSE <<PropertyMsg(name, " cannot be null")>>)
  ELSE LET type_errors == TypeDispatch(name, value, fragment)
       IN IF type_errors # << >> THEN type_errors
          ELSE AnyOfErrors(name, value, fragment)

ValidateProperty(name, value, fragment) ==
  IF value = JNull
  THEN (IF IsNullable(fragment)
        THEN << >>
        ELSE <<PropertyMsg(name, " cannot be null")>>)
  ELSE TypeDispatch(name, value, fragment) \o AnyOfErrors(name, value, fragment)

-----------------------------------------------------------------------------
(* validate_response                                                       *)

Returned(v) == [status |-> "return", value |-> v]

Raised(exc) == [status |-> "raise", exc |-> exc]

\* needle in haystack, for two str
RECURSIVE IsSubstringAt(_, _, _)
IsSubstringAt(needle, hay, from) ==
  IF from + Len(needle) - 1 > Len(hay) THEN FALSE
  ELSE \/ SubSeq(hay, from, from + Len(needle) - 1) = needle
       \/ IsSubstringAt(needle, hay, from + 1)

\* `prop in response`: "true", "false", or "raise" where Python raises TypeError
PyIn(prop, response) ==
  CASE IsDict(response) -> (IF prop \in DOMAIN response.d THEN "true" ELSE "false")
    [] IsList(response) ->
         (IF \E i \in 1..Len(response.items) : response.items[i] = JStr(prop)
          THEN "true" ELSE "false")
    [] IsStr(response) -> (IF IsSubstringAt(prop, response.s, 1) THEN "true" ELSE "false")
    [] OTHER -> "raise"

\* the loop over required, from i on; errors collected so far
RECURSIVE RequiredLoop(_, _, _, _)
RequiredLoop(response, required, i, errors) ==
  IF i > Len(required) THEN Returned(errors)
  ELSE
    LET found == PyIn(required[i], response)
    IN  IF found = "raise" THEN Raised("TypeError")
        ELSE RequiredLoop(response, required, i + 1,
               IF found = "false"
               THEN Append(errors, <<"Missing required property: ">> \o required[i])
               ELSE errors)

\* the loop over properties.items(), from i on; errors collected so far.
\* response[prop_name] with a str key raises TypeError on a str and on a list
RECURSIVE PropertiesLoop(_, _, _, _)
PropertiesLoop(response, properties, i, errors) ==
  IF i > Len(properties) THEN Returned(errors)
  ELSE
    LET found == PyIn(properties[i].name, response)
    IN  IF found = "raise" THEN Raised("TypeError")
        ELSE IF found = "false" THEN PropertiesLoop(response, properties, i + 1, errors)
        ELSE IF ~IsDict(response) THEN Raised("TypeError")
        ELSE PropertiesLoop(response, properties, i + 1,
               errors \o ValidateProperty(properties[i].name,
                                          response.d[properties[i].name],
                                          properties[i].spec))

\* mutant: the per-property errors come before the missing-required errors
ValidateResponse_PropertiesFirst(response, fragment) ==
  LET required == IF Has(fragment, "required") THEN fragment.required ELSE << >>
      properties == IF Has(fragment, "properties") THEN fragment.properties ELSE << >>
      first == PropertiesLoop(response, properties, 1, << >>)
  IN  IF first.status = "raise" THEN first
      ELSE RequiredLoop(response, required, 1, first.value)

\* mutant: the root fragment's own type is checked too, under the empty path
ValidateResponse_RootTyped(response, fragment) ==
  LET required == IF Has(fragment, "required") THEN fragment.required ELSE << >>
      properties == IF Has(fragment, "properties") THEN fragment.properties ELSE << >>
      first == RequiredLoop(response, required, 1, << >>)
      second == IF first.status = "raise" THEN first
                ELSE PropertiesLoop(response, properties, 1, first.value)
  IN  IF second.status = "raise" \/ response = JNull THEN second
      ELSE Returned(second.value \o TypeDispatch(<< >>, response, fragment))

ValidateResponse(response, fragment) ==
  LET required == IF Has(fragment, "required") THEN fragment.required ELSE << >>
      properties == IF Has(fragment, "properties") THEN fragment.properties ELSE << >>
      first == RequiredLoop(response, required, 1, << >>)
  IN  IF first.status = "raise" THEN first
      ELSE PropertiesLoop(response, properties, 1, first.value)

-----------------------------------------------------------------------------
(* get_schema_for_endpoint                                                 *)

\* Python None
None == [kind |-> "None"]

\* path.rstrip('/')
RECURSIVE RStripSlash(_)
RStripSlash(path) ==
  IF Len(path) > 0 /\ path[Len(path)] = "/"
  THEN RStripSlash(SubSeq(path, 1, Len(path) - 1))
  ELSE path

\* path = path.rstrip('/'); if not path.startswith('/'): path = f"/{path}"
\* mutant: only the leading slash is enforced, a trailing slash is kept
NormalizePath_NoStrip(path) ==
  IF Len(path) > 0 /\ path[1] = "/" THEN path ELSE <<"/">> \o path

NormalizePath(path) ==
  LET stripped == RStripSlash(path)
  IN  IF Len(stripped) > 0 /\ stripped[1] = "/" THEN stripped ELSE <<"/">> \o stripped

UpperLetters ==
  <<"A", "B", "C", "D", "E", "F", "G", "H", "I", "J", "K", "L", "M",
    "N", "O", "P", "Q", "R", "S", "T", "U", "V", "W", "X", "Y", "Z">>

LowerLetters ==
  <<"a", "b", "c", "d", "e", "f", "g", "h", "i", "j", "k", "l", "m",
    "n", "o", "p", "q", "r", "s", "t", "u", "v", "w", "x", "y", "z">>

LowerChar(c) ==
  IF c \in UpperAlpha
  THEN LowerLetters[CHOOSE i \in 1..26 : UpperLetters[i] = c]
  ELSE c

\* method.lower()
Lower(method) == [i \in 1..Len(method) |-> LowerChar(method[i])]

\* the position of the `}` that closes a placeholder opening at i (\{([^}]+)\}),
\* 0 when the `{` at i opens none
PlaceholderEnd(template, i) ==
  LET closers == {k \in (i + 1)..Len(template) : template[k] = "}"}
  IN  IF closers = {} THEN 0
      ELSE LET k == CHOOSE c \in closers : \A d \in closers : c <= d
           IN  IF k >= i + 2 THEN k ELSE 0

\* re.sub(r'\{([^}]+)\}', r'([^/]+)', schema_path) read as a regular expression, from
\* position i on: a placeholder becomes [^/]+, a `.` is the wildcard, any other
\* character of the modelled alphabet stands for itself
RECURSIVE CompilePattern(_, _)
CompilePattern(template, i) ==
  IF i > Len(template) THEN << >>
  ELSE IF template[i] = "{" /\ PlaceholderEnd(template, i) > 0
       THEN <<[t |-> "segment"]>> \o CompilePattern(template, PlaceholderEnd(template, i) + 1)
       ELSE IF template[i] = "."
            THEN <<[t |-> "any"]>> \o CompilePattern(template, i + 1)
       ELSE IF template[i] = "("
            THEN <<[t |-> "open"]>> \o CompilePattern(template, i + 1)
       ELSE IF template[i] = ")"
            THEN <<[t |-> "close"]>> \o CompilePattern(template, i + 1)
            ELSE <<[t |-> "char", c |-> template[i]]>> \o CompilePattern(template, i + 1)

\* re.compile accepts the pattern: every group that opens is closed, and none is closed
\* that was not opened (re.error otherwise)
RECURSIVE Balanced(_, _, _)
Balanced(pattern, i, depth) ==
  IF i > Len(pattern) THEN depth = 0
  ELSE CASE pattern[i].t = "open" -> Balanced(pattern, i + 1, depth + 1)
         [] pattern[i].t = "close" -> depth > 0 /\ Balanced(pattern, i + 1, depth - 1)
         [] OTHER -> Balanced(pattern, i + 1, depth)

PatternCompiles(schema_path) == Balanced(CompilePattern(schema_path, 1), 1, 0)

\* re.match of ^pattern$ : pattern from token i on against s from position j on
RECURSIVE MatchFrom(_, _, _, _)
MatchFrom(pattern, i, s, j) ==
  IF i > Len(pattern) THEN (j - 1) \in DollarEnds(s)
  ELSE
    CASE pattern[i].t = "char" ->
           j <= Len(s) /\ s[j] = pattern[i].c /\ MatchFrom(pattern, i + 1, s, j + 1)
      [] pattern[i].t = "any" ->
           j <= Len(s) /\ s[j] # "\n" /\ MatchFrom(pattern, i + 1, s, j + 1)
      [] pattern[i].t = "segment" ->
           \E k \in j..Len(s) :
             /\ \A m \in j..k : s[m] # "/"
             /\ MatchFrom(pattern, i + 1, s, k + 1)
      [] pattern[i].t \in {"open", "close"} ->
           MatchFrom(pattern, i + 1, s, j)

MatchPathPattern(actual_path, schema_path) ==
  MatchFrom(CompilePattern(schema_path, 1), 1, actual_path, 1)

\* the call as the caller sees it: the match, or the re.error of a pattern that does
\* not compile
MatchPathPatternResult(actual_path, schema_path) ==
  IF PatternCompiles(schema_path)
  THEN Returned(MatchPathPattern(actual_path, schema_path))
  ELSE Raised("re.error")

\* the first of '200', '201' that is in responses and whose spec has content with
\* 'application/json' decides: content['application/json'].get('schema')
RECURSIVE ExtractFrom(_, _, _)
ExtractFrom(responses, codes, i) ==
  IF i > Len(codes) THEN None
  ELSE IF /\ Has(responses, codes[i])
          /\ Has(responses[codes[i]], "content")
          /\ Has(responses[codes[i]].content, "application/json")
       THEN LET media == responses[codes[i]].content["application/json"]
            IN  IF Has(media, "schema") THEN media.schema ELSE None
       ELSE ExtractFrom(responses, codes, i + 1)

ExtractResponseSchema(method_spec) ==
  ExtractFrom(IF Has(method_spec, "responses") THEN method_spec.responses ELSE << >>,
              <<"200", "201">>, 1)

\* self.schema.get('paths', {}) as the sequence of its (path, spec) items
PathsOf(document) == IF Has(document, "paths") THEN document.paths ELSE << >>

\* mutant: the scan does not stop at the first match, the last one wins
RECURSIVE ScanTemplates_LastWins(_, _, _, _)
ScanTemplates_LastWins(paths, method, path, i) ==
  IF i > Len(paths) THEN None
  ELSE
    LET later == {k \in (i + 1)..Len(paths) :
                    MatchPathPattern(path, paths[k].path) /\ Has(paths[k].spec, Lower(method))}
    IN  IF later = {} /\ MatchPathPattern(path, paths[i].path)
                      /\ Has(paths[i].spec, Lower(method))
        THEN ExtractResponseSchema(paths[i].spec[Lower(method)])
        ELSE ScanTemplates_LastWins(paths, method, path, i + 1)

\* mutant: the first template that matches the path decides, with or without the method
RECURSIVE ScanTemplates_NoSkip(_, _, _, _)
ScanTemplates_NoSkip(paths, method, path, i) ==
  IF i > Len(paths) THEN None
  ELSE IF MatchPathPattern(path, paths[i].path)
       THEN (IF Has(paths[i].spec, Lower(method))
             THEN ExtractResponseSchema(paths[i].spec[Lower(method)])
             ELSE None)
       ELSE ScanTemplates_NoSkip(paths, method, path, i + 1)

\* the loop over paths.items(), from entry i on
RECURSIVE ScanTemplates(_, _, _, _)
ScanTemplates(paths, method, path, i) ==
  IF i > Len(paths) THEN None
  ELSE IF MatchPathPattern(path, paths[i].path) /\ Has(paths[i].spec, Lower(method))
       THEN ExtractResponseSchema(paths[i].spec[Lower(method)])
       ELSE ScanTemplates(paths, method, path, i + 1)

\* the loop over paths.items(), from entry i on, reaches a template whose pattern does
\* not compile before it returns
RECURSIVE ScanRaises(_, _, _, _)
ScanRaises(paths, method, path, i) ==
  /\ i <= Len(paths)
  /\ \/ ~PatternCompiles(paths[i].path)
     \/ /\ ~(MatchPathPattern(path, paths[i].path) /\ Has(paths[i].spec, Lower(method)))
        /\ ScanRaises(paths, method, path, i + 1)

\* `if not self.schema`: None and the empty document are falsy
IsFalsy(document) == document = None \/ DOMAIN document = {}

\* mutant: an exact match without the method ends the lookup
GetSchemaForEndpoint_ExactStops(document, method, path) ==
  IF IsFalsy(document) THEN None
  ELSE
    LET normal == NormalizePath(path)
        paths == PathsOf(document)
        exact == {i \in 1..Len(paths) : paths[i].path = normal}
    IN  IF exact # {}
        THEN (IF Has(paths[CHOOSE i \in exact : TRUE].spec, Lower(method))
              THEN ExtractResponseSchema(paths[CHOOSE i \in exact : TRUE].spec[Lower(method)])
              ELSE None)
        ELSE ScanTemplates(paths, method, normal, 1)

\* mutant: the exact match looks the method up as it was passed
GetSchemaForEndpoint_CaseSensitive(document, method, path) ==
  IF IsFalsy(document) THEN None
  ELSE
    LET normal == NormalizePath(path)
        paths == PathsOf(document)
        exact == {i \in 1..Len(paths) : paths[i].path = normal}
    IN  IF exact # {} /\ Has(paths[CHOOSE i \in exact : TRUE].spec, method)
        THEN ExtractResponseSchema(paths[CHOOSE i \in exact : TRUE].spec[method])
        ELSE ScanTemplates(paths, method, normal, 1)

GetSchemaForEndpoint(document, method, path) ==
  IF IsFalsy(document) THEN None
  ELSE
    LET normal == NormalizePath(path)
        paths == PathsOf(document)
        exact == {i \in 1..Len(paths) : paths[i].path = normal}
    IN  IF exact # {} /\ Has(paths[CHOOSE i \in exact : TRUE].spec, Lower(method))
        THEN ExtractResponseSchema(paths[CHOOSE i \in exact : TRUE].spec[Lower(method)])
        ELSE ScanTemplates(paths, method, normal, 1)

\* the call as the caller sees it: the schema or None, or the re.error of the scan
GetSchemaForEndpointResult(document, method, path) ==
  LET normal == NormalizePath(path)
      paths == PathsOf(document)
      exact == {i \in 1..Len(paths) : paths[i].path = normal}
  IN  IF /\ ~IsFalsy(document)
         /\ ~(exact # {} /\ Has(paths[CHOOSE i \in exact : TRUE].spec, Lower(method)))
         /\ ScanRaises(paths, method, normal, 1)
      THEN Raised("re.error")
      ELSE Returned(GetSchemaForEndpoint(document, method, path))

-----------------------------------------------------------------------------
(* Inputs of the validation calls                                          *)

MaxInt == 2

MaxListLen == 2

MaxAlternatives == 2

\* the name _validate_property is entered with
TopNames == {<<"x">>}

PropNames == {<<"a">>, <<"b">>}

EmailAB == <<"a", "@", "b", ".", "c", "o">>

Scalars ==
  {JNull, JBool(TRUE), JBool(FALSE), JFloat(2), JFloat(3),
   JStr(<< >>), JStr(<<"a">>), JStr(EmailAB), JStr(<<"a", "b", "c", "d">>)}
    \cup {JInt(n) : n \in 0..MaxInt}

Elements == {JNull, JBool(TRUE), JInt(1), JStr(<<"a">>)}

Lists == {JList(s) : s \in UNION {[1..n -> Elements] : n \in 0..MaxListLen}}

Dicts == {JDict(d) : d \in UNION {[ks -> Elements \cup {JFloat(3)}] : ks \in SUBSET PropNames}}

Nested ==
  {JList(<<JDict(<<"a">> :> JInt(1))>>),
   JList(<<JList(<<JInt(1)>>), JStr(<<"a">>)>>),
   JList(<<JInt(1), JStr(<<"a", "b", "c", "d">>), JNull>>),
   JDict(<<"a">> :> JList(<<JInt(1), JNull, JStr(<< >>)>>)),
   JDict(<<"a">> :> JDict(<<"b">> :> JNull)),
   JDict(<<"a">> :> JInt(1) @@ <<"c">> :> JDict(<<"a">> :> JNull))}

Values == Scalars \cup Lists \cup Dicts \cup Nested

\* a key that may be absent: no key, or the key with one of the values
Optional(key, values) == {<< >>} \cup {key :> v : v \in values}

StringFragments ==
  {[type |-> "string"] @@ f @@ lo @@ hi :
     f \in Optional("format", {"email", "zip"}),
     lo \in Optional("minLength", {2}),
     hi \in Optional("maxLength", {3})}

NumberFragments ==
  {[type |-> ty] @@ lo @@ hi :
     ty \in {"number", "integer"},
     lo \in Optional("minimum", {JInt(1), JFloat(3)}),
     hi \in Optional("maximum", {JInt(1)})}

\* fragments used as items, property specs and anyOf alternatives
InnerFragments ==
  {<< >>,
   [type |-> "string", minLength |-> 2],
   [type |-> "string", format |-> "email", minLength |-> 2],
   [type |-> "integer", minimum |-> JInt(1)],
   [type |-> "boolean", nullable |-> TRUE]}

PropertySeqs ==
  {<< >>}
    \cup {<<[name |-> n, spec |-> f]>> : n \in PropNames, f \in InnerFragments}
    \cup {<<[name |-> <<"a">>, spec |-> [type |-> "integer"]],
            [name |-> <<"b">>, spec |-> [type |-> "string", minLength |-> 2]]>>,
          <<[name |-> <<"b">>, spec |-> [type |-> "boolean"]],
            [name |-> <<"a">>, spec |-> [type |-> "array", items |-> [type |-> "integer"]]]>>,
          <<[name |-> <<"a">>,
             spec |-> [type |-> "object", required |-> <<<<"b">>>>,
                       properties |-> <<[name |-> <<"b">>, spec |-> [type |-> "string"]]>>]]>>}

RequiredSeqs == {<< >>, <<<<"a">>>>, <<<<"b">>, <<"a">>>>}

\* fragments with neither `type` nor `anyOf`
UntypedFragments ==
  {k @@ p @@ r :
     k \in {<< >>, [minLength |-> 2], [format |-> "email"], [minimum |-> JInt(1)],
            [items |-> [type |-> "string"]], [minItems |-> 1]},
     p \in Optional("properties", {<<[name |-> <<"a">>, spec |-> [type |-> "integer"]]>>}),
     r \in Optional("required", {<<<<"a">>>>})}

ArrayFragments ==
  {[type |-> "array"] @@ it @@ lo @@ hi :
     it \in Optional("items", InnerFragments),
     lo \in Optional("minItems", {1}),
     hi \in Optional("maxItems", {1})}

ObjectFragments ==
  {[type |-> "object"] @@ p @@ r :
     p \in Optional("properties", PropertySeqs),
     r \in Optional("required", RequiredSeqs)}

Alternatives ==
  {[type |-> "string"],
   [type |-> "integer"],
   [type |-> "string", format |-> "email", minLength |-> 2],
   [type |-> "object", required |-> <<<<"a">>>>,
    properties |-> <<[name |-> <<"a">>, spec |-> [type |-> "integer"]]>>],
   [type |-> "array", items |-> [type |-> "string"], minItems |-> 1],
   [anyOf |-> <<[type |-> "boolean"], [type |-> "number", minimum |-> JInt(1)]>>]}

AnyOfFragments ==
  {base @@ [anyOf |-> alts] :
     base \in {<< >>, [type |-> "string", minLength |-> 2], [type |-> "integer"]},
     alts \in UNION {[1..n -> Alternatives] : n \in 0..MaxAlternatives}}

TypedFragments ==
  StringFragments \cup NumberFragments \cup ArrayFragments \cup ObjectFragments
    \cup {[type |-> "boolean"], [type |-> "foo"], [type |-> ""]}

Fragments ==
  {f @@ n : f \in TypedFragments \cup UntypedFragments \cup AnyOfFragments,
            n \in Optional("nullable", {TRUE, FALSE})}

\* root schemas handed to validate_response
RootFragments ==
  {k @@ p @@ r :
     k \in {<< >>, [type |-> "object"], [type |-> "array", items |-> [type |-> "string"]],
            [anyOf |-> <<[type |-> "string"]>>], [nullable |-> TRUE],
            [type |-> "string", minLength |-> 2]},
     p \in Optional("properties", PropertySeqs),
     r \in Optional("required", RequiredSeqs)}

-----------------------------------------------------------------------------
(* The validator object and the calls made on it                           *)

Idle == [op |-> "idle"]

NoRet == [status |-> "none"]

\* ResponseValidator() constructed without a schema_path
Init ==
  /\ schema = None
  /\ call = Idle
  /\ ret = NoRet

ValidatePropertyCall ==
  /\ call = Idle
  /\ \E name \in TopNames, value \in Values, fragment \in Fragments :
       /\ call' = [op |-> "_validate_property", name |-> name, value |-> value,
                   schema |-> fragment]
       /\ ret' = Returned(ValidateProperty(name, value, fragment))
  /\ UNCHANGED schema

ValidateResponseCall ==
  /\ call = Idle
  /\ \E response \in Values, fragment \in RootFragments :
       /\ call' = [op |-> "validate_response", response |-> response, schema |-> fragment]
       /\ ret' = ValidateResponse(response, fragment)
  /\ UNCHANGED schema

\* the caller takes the result
Return ==
  /\ call # Idle
  /\ call' = Idle
  /\ ret' = NoRet
  /\ UNCHANGED schema

Next == ValidatePropertyCall \/ ValidateResponseCall \/ Return

Spec == Init /\ [][Next]_vars

-----------------------------------------------------------------------------
(* Inputs of the lookup calls, and the validator constructed from a schema *)
(* document                                                                *)

MaxTemplates == 2

SchemaA == [type |-> "string"]

SchemaB == [type |-> "integer"]

JsonBody(fragment) == [content |-> ("application/json" :> [schema |-> fragment])]

\* a JSON media type that declares no schema
JsonNoSchema == [content |-> ("application/json" :> << >>)]

TextOnly == [content |-> ("text/plain" :> [schema |-> SchemaB])]

NoContent == [description |-> "ok"]

Operations ==
  {[responses |-> r200 @@ r201] :
     r200 \in Optional("200", {JsonBody(SchemaA), JsonNoSchema, TextOnly, NoContent}),
     r201 \in Optional("201", {JsonBody(SchemaB), JsonNoSchema})}
    \cup {<< >>, [responses |-> ("404" :> JsonBody(SchemaA))]}

Get == <<"g", "e", "t">>

Post == <<"p", "o", "s", "t">>

OperationMappings ==
  {Get :> [responses |-> ("200" :> JsonBody(SchemaA))],
   Get :> [responses |-> ("200" :> NoContent @@ "201" :> JsonBody(SchemaB))],
   Post :> [responses |-> ("200" :> JsonBody(SchemaA))],
   <<"G", "E", "T">> :> [responses |-> ("200" :> JsonBody(SchemaB))],
   Get :> [responses |-> ("200" :> TextOnly)]}

Templates ==
  {<<"/", "a", "/", "{", "i", "}">>,
   <<"/", "a", "/", "s">>,
   <<"/", "{", "x", "}", "/", "s">>,
   <<"/", "a">>,
   <<"/", "a", "/">>,
   <<"/", "a", ".", "b">>}

PathEntries == {[path |-> tp, spec |-> m] : tp \in Templates, m \in OperationMappings}

\* a dict has each key once
DistinctPaths(paths) ==
  \A i, j \in 1..Len(paths) : paths[i].path = paths[j].path => i = j

Documents ==
  {None, << >>, [info |-> "x"]}
    \cup {[paths |-> ps] :
            ps \in {s \in UNION {[1..n -> PathEntries] : n \in 0..MaxTemplates} :
                      DistinctPaths(s)}}

Methods == {<<"G", "E", "T">>, Get, <<"G", "e", "t">>, Post}

ConcretePaths ==
  {<<"/", "a", "/", "s">>,
   <<"/", "a", "/", "4">>,
   <<"a", "/", "s">>,
   <<"/", "a", "/", "s", "/">>,
   <<"/", "a">>,
   <<"/", "a", "/">>,
   <<"/", "b", "/", "s">>,
   <<"/", "a", "x", "b">>,
   <<"/", "a", ".", "b">>,
   <<"/">>,
   << >>}

\* templates with parentheses: one that opens a group and never closes it, one balanced
GroupTemplates ==
  {<<"/", "a", "(">>,
   <<"/", "b", "(", "s", ")">>}

GroupEntries ==
  {[path |-> tp, spec |-> m] :
     tp \in GroupTemplates \cup {<<"/", "a">>, <<"/", "a", "/", "{", "i", "}">>},
     m \in {Get :> [responses |-> ("200" :> JsonBody(SchemaA))],
            Post :> [responses |-> ("200" :> JsonBody(SchemaB))]}}

\* documents that register at least one template with parentheses
GroupDocuments ==
  {[paths |-> ps] :
     ps \in {s \in UNION {[1..n -> GroupEntries] : n \in 1..MaxTemplates} :
               /\ DistinctPaths(s)
               /\ \E i \in 1..Len(s) : s[i].path \in GroupTemplates}}

\* ResponseValidator(schema_path): self.schema is the document json.load returned
InitPath ==
  /\ schema \in Documents
  /\ call = Idle
  /\ ret = NoRet

GetSchemaForEndpointCall ==
  /\ call = Idle
  /\ \E method \in Methods, path \in ConcretePaths :
       /\ call' = [op |-> "get_schema_for_endpoint", method |-> method, path |-> path]
       /\ ret' = GetSchemaForEndpointResult(schema, method, path)
  /\ UNCHANGED schema

MatchPathPatternCall ==
  /\ call = Idle
  /\ \E actual_path \in ConcretePaths, schema_path \in Templates \cup GroupTemplates :
       /\ call' = [op |-> "_match_path_pattern", actual_path |-> actual_path,
                   schema_path |-> schema_path]
       /\ ret' = MatchPathPatternResult(actual_path, schema_path)
  /\ UNCHANGED schema

ExtractResponseSchemaCall ==
  /\ call = Idle
  /\ \E method_spec \in Operations :
       /\ call' = [op |-> "_extract_response_schema", method_spec |-> method_spec]
       /\ ret' = Returned(ExtractResponseSchema(method_spec))
  /\ UNCHANGED schema

\* ResponseValidator(schema_path) on a document with parentheses in its templates
InitGroup ==
  /\ schema \in GroupDocuments
  /\ call = Idle
  /\ ret = NoRet

NextPath ==
  GetSchemaForEndpointCall \/ MatchPathPatternCall \/ ExtractResponseSchemaCall \/ Return

SpecPath == InitPath /\ [][NextPath]_vars

SpecGroup == InitGroup /\ [][NextPath]_vars

-----------------------------------------------------------------------------
(* The format check called on its own                                      *)

MaxEmailLen == 7

MaxUrlTail == 3

\* every text of at most n characters of the alphabet
TextsOver(alphabet, n) == UNION {[1..k -> alphabet] : k \in 0..n}

EmailTexts == TextsOver({"a", "@", ".", "\n"}, MaxEmailLen)

UrlTexts ==
  {scheme \o rest :
     scheme \in {<<"h", "t", "t", "p", ":", "/", "/">>,
                 <<"h", "t", "t", "p", "s", ":", "/", "/">>,
                 <<"f", "t", "p", ":", "/", "/">>,
                 <<"h", "t", "t", "p", ":", "/">>},
     rest \in TextsOver({"a", "/", " ", ".", "\n"}, MaxUrlTail)}

\* texts with characters the alphabets above leave out
OtherTexts ==
  {<<"A", "1", "_", "%", "+", "-", "@", "b", "-", "2", ".", "C", "o">>,
   <<"a", "!", "@", "b", ".", "c", "o">>,
   <<"a", " ", "@", "b", ".", "c", "o">>,
   <<"a", "@", "b", "_", ".", "c", "o">>,
   <<"a", "@", "b", ".", "c", "0">>,
   <<"a", "@", "b", ".", "c", "o", " ">>,
   <<"h", "t", "t", "p", ":", "/", "/", "$", "a">>,
   <<"h", "t", "t", "p", ":", "/", "/", "a", "?", "#">>,
   <<"h", "t", "t", "p", ":", "/", "/", "?", "a">>,
   <<"h", "t", "t", "p", ":", "/", "/", "#", "a">>,
   <<"h", "t", "t", "p", ":", "/", "/", "a", "\t">>,
   <<"H", "T", "T", "P", ":", "/", "/", "a", "b">>,
   <<"2", "0", "2", "4", "-", "0", "1", "-", "0", "2", "T", "0", "3", ":", "0", "4", ":",
     "0", "5", "Z">>,
   <<"2", "0", "2", "4", "-", "0", "1", "-", "0", "2">>}

FormatTexts == EmailTexts \cup UrlTexts \cup OtherTexts

FormatNames == {"email", "uri", "url", "uuid", "date-time", "zip"}

ValidateStringFormatCall ==
  /\ call = Idle
  /\ \E name \in TopNames, value \in FormatTexts, format_type \in FormatNames :
       /\ call' = [op |-> "_validate_string_format", name |-> name, value |-> value,
                   format_type |-> format_type]
       /\ ret' = Returned(ValidateStringFormat(name, value, format_type))
  /\ UNCHANGED schema

NextFormat == ValidateStringFormatCall \/ Return

SpecFormat == Init /\ [][NextFormat]_vars

-----------------------------------------------------------------------------
(* Calls made from several threads on one validator                        *)

MaxThreads == 2

Threads == 1..MaxThreads

JsonOperation(fragment) == [responses |-> ("200" :> JsonBody(fragment))]

\* two documents with overlapping templates, and no document
ThreadDocuments ==
  {None,
   [paths |-> <<[path |-> <<"/", "a", "/", "{", "i", "}">>,
                 spec |-> Get :> JsonOperation(SchemaA)],
                [path |-> <<"/", "{", "x", "}", "/", "s">>,
                 spec |-> Get :> JsonOperation(SchemaB)]>>],
   [paths |-> <<[path |-> <<"/", "a", "/", "s">>,
                 spec |-> Post :> JsonOperation(SchemaA)],
                [path |-> <<"/", "a", "/", "{", "i", "}">>,
                 spec |-> Get :> JsonOperation(SchemaB)]>>]}

ThreadLookups ==
  {[method |-> m, path |-> p] :
     m \in {Get, <<"P", "O", "S", "T">>},
     p \in {<<"/", "a", "/", "s">>, <<"/", "b", "/", "s">>, <<"a", "/", "4", "/">>}}

ThreadResponses ==
  {JDict(<<"a">> :> JInt(1)), JDict(<<"b">> :> JNull), JStr(<<"a">>)}

ThreadRoots ==
  {[required |-> <<<<"a">>, <<"b">>>>,
    properties |-> <<[name |-> <<"a">>, spec |-> [type |-> "string"]]>>],
   [properties |-> <<[name |-> <<"a">>,
                      spec |-> [type |-> "integer", minimum |-> JInt(2)]]>>]}

ThreadProperties ==
  {[value |-> v, schema |-> f] :
     v \in {JInt(1), JNull},
     f \in {[type |-> "string"], [anyOf |-> <<[type |-> "integer"]>>, nullable |-> TRUE]}}

Lookup == "get_schema_for_endpoint"

\* the thread's call has reached this position
At(t, op, pc) == call[t].op = op /\ call[t].pc = pc

\* the thread's call ends with this result
Finish(t, result) ==
  /\ call' = [call EXCEPT ![t].pc = "done"]
  /\ ret' = [ret EXCEPT ![t] = result]

\* ResponseValidator(schema_path), and no call under way in any thread
InitThreads ==
  /\ schema \in ThreadDocuments
  /\ call = [t \in Threads |-> Idle]
  /\ ret = [t \in Threads |-> NoRet]

\* a thread calls get_schema_for_endpoint(method, path)
GetSchemaForEndpointEnter(t) ==
  /\ call[t] = Idle
  /\ \E a \in ThreadLookups :
       call' = [call EXCEPT ![t] = [op |-> Lookup, method |-> a.method, path |-> a.path,
                                    pc |-> "exact"]]
  /\ UNCHANGED <<schema, ret>>

\* `if not self.schema`, the normalization and the exact-match block
GetSchemaForEndpointExact(t) ==
  /\ At(t, Lookup, "exact")
  /\ LET normal == NormalizePath(call[t].path)
         paths == PathsOf(schema)
         exact == {i \in 1..Len(paths) : paths[i].path = normal}
     IN  IF IsFalsy(schema) THEN Finish(t, Returned(None))
         ELSE IF exact # {} /\ Has(paths[CHOOSE i \in exact : TRUE].spec, Lower(call[t].method))
         THEN Finish(t, Returned(ExtractResponseSchema(
                          paths[CHOOSE i \in exact : TRUE].spec[Lower(call[t].method)])))
         ELSE /\ call' = [call EXCEPT ![t].pc = "scan"]
              /\ UNCHANGED ret
  /\ UNCHANGED schema

\* the first template from entry i on that matches the path and has the method, 0 when
\* there is none
RECURSIVE ScanHit(_, _, _, _)
ScanHit(paths, method, path, i) ==
  IF i > Len(paths) THEN 0
  ELSE IF MatchPathPattern(path, paths[i].path) /\ Has(paths[i].spec, Lower(method))
       THEN i
       ELSE ScanHit(paths, method, path, i + 1)

\* the entry at position i moved to the front
MoveToFront(paths, i) ==
  IF i = 0 THEN paths
  ELSE <<paths[i]>> \o SubSeq(paths, 1, i - 1) \o SubSeq(paths, i + 1, Len(paths))

\* mutant: the scan moves the template it found to the front of the document's paths
GetSchemaForEndpointScan_MoveToFront(t) ==
  /\ At(t, Lookup, "scan")
  /\ LET normal == NormalizePath(call[t].path)
         paths == PathsOf(schema)
     IN  /\ Finish(t, IF ScanRaises(paths, call[t].method, normal, 1)
                      THEN Raised("re.error")
                      ELSE Returned(ScanTemplates(paths, call[t].method, normal, 1)))
         /\ schema' = [schema EXCEPT
                         !.paths = MoveToFront(paths, ScanHit(paths, call[t].method, normal, 1))]

\* the loop over self.schema.get('paths', {}).items()
GetSchemaForEndpointScan(t) ==
  /\ At(t, Lookup, "scan")
  /\ LET normal == NormalizePath(call[t].path)
         paths == PathsOf(schema)
     IN  Finish(t, IF ScanRaises(paths, call[t].method, normal, 1)
                   THEN Raised("re.error")
                   ELSE Returned(ScanTemplates(paths, call[t].method, normal, 1)))
  /\ UNCHANGED schema

\* a thread calls validate_response(response, schema); errors = []
ValidateResponseEnter(t) ==
  /\ call[t] = Idle
  /\ \E response \in ThreadResponses, fragment \in ThreadRoots :
       call' = [call EXCEPT ![t] = [op |-> "validate_response", response |-> response,
                                    schema |-> fragment, errors |-> << >>,
                                    pc |-> "required"]]
  /\ UNCHANGED <<schema, ret>>

\* the loop over required
ValidateResponseRequired(t) ==
  /\ At(t, "validate_response", "required")
  /\ LET fragment == call[t].schema
         required == IF Has(fragment, "required") THEN fragment.required ELSE << >>
         first == RequiredLoop(call[t].response, required, 1, call[t].errors)
     IN  IF first.status = "raise" THEN Finish(t, first)
         ELSE /\ call' = [call EXCEPT ![t].errors = first.value, ![t].pc = "properties"]
              /\ UNCHANGED ret
  /\ UNCHANGED schema

\* the errors lists of the other threads' validate_response calls, one after the other
RECURSIVE ErrorsOfOthers(_, _)
ErrorsOfOthers(t, u) ==
  IF u > MaxThreads THEN << >>
  ELSE (IF u # t /\ call[u].op = "validate_response" THEN call[u].errors ELSE << >>)
       \o ErrorsOfOthers(t, u + 1)

\* mutant: the errors list is one object shared by all calls
ValidateResponseProperties_SharedErrors(t) ==
  /\ At(t, "validate_response", "properties")
  /\ LET fragment == call[t].schema
         properties == IF Has(fragment, "properties") THEN fragment.properties ELSE << >>
     IN  Finish(t, PropertiesLoop(call[t].response, properties, 1,
                                  ErrorsOfOthers(t, 1) \o call[t].errors))
  /\ UNCHANGED schema

\* the loop over properties.items(), and `return errors`
ValidateResponseProperties(t) ==
  /\ At(t, "validate_response", "properties")
  /\ LET fragment == call[t].schema
         properties == IF Has(fragment, "properties") THEN fragment.properties ELSE << >>
     IN  Finish(t, PropertiesLoop(call[t].response, properties, 1, call[t].errors))
  /\ UNCHANGED schema

\* a thread calls _validate_property(name, value, schema)
ValidatePropertyEnter(t) ==
  /\ call[t] = Idle
  /\ \E name \in TopNames, a \in ThreadProperties :
       call' = [call EXCEPT ![t] = [op |-> "_validate_property", name |-> name,
                                    value |-> a.value, schema |-> a.schema,
                                    pc |-> "body"]]
  /\ UNCHANGED <<schema, ret>>

\* the body of _validate_property: it reads its arguments and its own locals only
ValidatePropertyBody(t) ==
  /\ At(t, "_validate_property", "body")
  /\ Finish(t, Returned(ValidateProperty(call[t].name, call[t].value, call[t].schema)))
  /\ UNCHANGED schema

\* the caller in the thread takes the result
ThreadReturn(t) ==
  /\ call[t] # Idle
  /\ call[t].pc = "done"
  /\ call' = [call EXCEPT ![t] = Idle]
  /\ ret' = [ret EXCEPT ![t] = NoRet]
  /\ UNCHANGED schema

NextThreads ==
  \E t \in Threads :
    \/ GetSchemaForEndpointEnter(t)
    \/ GetSchemaForEndpointExact(t)
    \/ GetSchemaForEndpointScan(t)
    \/ ValidateResponseEnter(t)
    \/ ValidateResponseRequired(t)
    \/ ValidateResponseProperties(t)
    \/ ValidatePropertyEnter(t)
    \/ ValidatePropertyBody(t)
    \/ ThreadReturn(t)

SpecThreads == InitThreads /\ [][NextThreads]_vars

-----------------------------------------------------------------------------
(* Properties                                                              *)

IsValidateProperty == call.op = "_validate_property"

IsValidateResponse == call.op = "validate_response"

IsLookup == call.op = "get_schema_for_endpoint"

IsExtract == call.op = "_extract_response_schema"

MarkedNullable(f) == "nullable" \in DOMAIN f /\ f.nullable = TRUE

NoTypeNoAnyOf(f) == "type" \notin DOMAIN f /\ "anyOf" \notin DOMAIN f

CannotBeNull(name) == <<"Property ">> \o name \o <<" cannot be null">>

NoMatchSummary(name) == <<"Property ">> \o name \o <<" does not match any allowed schemas">>

\* f"Property {name} should be <what>": the literal tail is one piece of the f-string
ShouldBe(name, tail) == <<"Property ">> \o name \o <<tail>>

\* C1 as stated: for every value, null included, a fragment with neither `type` nor
\* `anyOf` makes _validate_property return the empty list.
C1_Original ==
  (IsValidateProperty /\ NoTypeNoAnyOf(call.schema)) => ret.value = << >>

\* C1, amended: for a fragment with neither `type` nor `anyOf`, _validate_property
\* returns the empty list for every non-null value and for null when the fragment is
\* marked nullable; for null and a fragment not marked nullable it returns the single
\* error "Property <name> cannot be null".
C1_NoTypeNoAnyOf ==
  (IsValidateProperty /\ NoTypeNoAnyOf(call.schema)) =>
    ret.value = IF call.value = JNull /\ ~MarkedNullable(call.schema)
                THEN <<CannotBeNull(call.name)>>
                ELSE << >>

\* a short string against a fragment that has minLength and required but no type
C1_Witness ==
  /\ IsValidateProperty
  /\ NoTypeNoAnyOf(call.schema)
  /\ DOMAIN call.schema = {"minLength", "required"}
  /\ call.value = JStr(<<"a">>)
  /\ ret.value = << >>

\* C2: validating true against {anyOf: [{type: string}, {type: integer}]} returns a
\* non-empty list that starts with the "does not match any allowed schemas" summary and
\* holds a type error of the string alternative and one of the integer alternative.
C2_AnyOfExhaustiveFailure ==
  (/\ IsValidateProperty
   /\ call.value = JBool(TRUE)
   /\ call.schema = [anyOf |-> <<[type |-> "string"], [type |-> "integer"]>>])
  =>
  (/\ ret.value # << >>
   /\ ret.value[1] = NoMatchSummary(call.name)
   /\ \E i \in 1..Len(ret.value) :
        ret.value[i] = <<"  - ">> \o ShouldBe(call.name, " should be a string")
   /\ \E i \in 1..Len(ret.value) :
        \/ ret.value[i] = <<"  - ">> \o ShouldBe(call.name, " should be a number")
        \/ ret.value[i] = <<"  - ">> \o ShouldBe(call.name, " should be an integer"))

\* C3: for a fragment of type number or integer (and no anyOf), a string, boolean,
\* array or object value yields exactly ["Property <path> should be a number"].
C3_NonNumberOneTypeError ==
  (/\ IsValidateProperty
   /\ "type" \in DOMAIN call.schema
   /\ call.schema.type \in {"number", "integer"}
   /\ "anyOf" \notin DOMAIN call.schema
   /\ call.value.kind \in {"str", "bool", "list", "dict"})
  => ret.value = <<<<"Property ">> \o call.name \o <<" should be a number">>>>

\* C4: for a null value _validate_property returns [] when the fragment is marked
\* nullable and ["Property <path> cannot be null"] otherwise, whatever type,
\* constraints, nested fragments or anyOf the fragment declares.
C4_NullHandling ==
  (IsValidateProperty /\ call.value = JNull) =>
    ret.value = IF MarkedNullable(call.schema) THEN << >> ELSE <<CannotBeNull(call.name)>>

\* null against a nullable fragment that declares a type and an anyOf no value satisfies
C4_Witness ==
  /\ IsValidateProperty
  /\ call.value = JNull
  /\ MarkedNullable(call.schema)
  /\ "type" \in DOMAIN call.schema
  /\ "anyOf" \in DOMAIN call.schema
  /\ call.schema.anyOf = << >>
  /\ ret.value = << >>

\* the registered entries that match the normalized path and contain the method
Candidates(document, method, path) ==
  {i \in 1..Len(document.paths) :
     /\ MatchPathPattern(NormalizePath(path), document.paths[i].path)
     /\ Lower(method) \in DOMAIN document.paths[i].spec}

First(indices) == CHOOSE i \in indices : \A j \in indices : i <= j

SchemaOfEntry(document, method, i) ==
  ExtractResponseSchema(document.paths[i].spec[Lower(method)])

HasPaths == schema # None /\ "paths" \in DOMAIN schema

Overlapping ==
  IsLookup /\ HasPaths /\ Cardinality(Candidates(schema, call.method, call.path)) >= 2

\* C5 as stated: when two registered templates both match the path and both contain the
\* method, the earlier-registered template's response schema is returned.
C5_Original ==
  Overlapping =>
    ret.value = SchemaOfEntry(schema, call.method,
                              First(Candidates(schema, call.method, call.path)))

\* C5, amended: overlapping templates are resolved by registration order, except that
\* a template equal verbatim to the normalized path (and containing the method) wins
\* whatever its position: with `/api/agents/{id}` registered before
\* `/api/agents/search`, the path `/api/agents/search` gets the schema of
\* `/api/agents/search`.
C5_RegistrationOrder ==
  Overlapping =>
    LET cands == Candidates(schema, call.method, call.path)
        verbatim == {i \in cands : schema.paths[i].path = NormalizePath(call.path)}
    IN  ret.value = SchemaOfEntry(schema, call.method,
                                  IF verbatim # {} THEN First(verbatim) ELSE First(cands))

\* two placeholder templates match, none verbatim, and their schemas differ
C5_Witness ==
  /\ Overlapping
  /\ LET cands == Candidates(schema, call.method, call.path)
     IN  /\ \A i \in cands : schema.paths[i].path # NormalizePath(call.path)
         /\ \E i \in cands :
              SchemaOfEntry(schema, call.method, i)
                # SchemaOfEntry(schema, call.method, First(cands))
         /\ ret.value = SchemaOfEntry(schema, call.method, First(cands))
         /\ ret.value # None

\* the response declares a JSON body schema
DeclaresJsonSchema(responses, code) ==
  /\ code \in DOMAIN responses
  /\ "content" \in DOMAIN responses[code]
  /\ "application/json" \in DOMAIN responses[code].content
  /\ "schema" \in DOMAIN responses[code].content["application/json"]

\* C6: "200" then "201" are checked and the schema of the first one that declares a
\* JSON body schema is returned; when "200" exists without a JSON body schema and "201"
\* declares one, the "201" schema is returned.
C6_FirstJsonSchema ==
  (/\ IsExtract
   /\ "responses" \in DOMAIN call.method_spec
   /\ "200" \in DOMAIN call.method_spec.responses
   /\ ~DeclaresJsonSchema(call.method_spec.responses, "200")
   /\ DeclaresJsonSchema(call.method_spec.responses, "201"))
  => ret.value = call.method_spec.responses["201"].content["application/json"].schema

\* C7: validate_response and _validate_property return a list and never raise, for
\* every JSON value as the response body.
C7_NeverRaises ==
  (IsValidateProperty \/ IsValidateResponse) => ret.status = "return"

\* the names a fragment declares in `properties`, and those it lists in `required`
DeclaredNames(f) ==
  IF "properties" \in DOMAIN f
  THEN {f.properties[i].name : i \in 1..Len(f.properties)}
  ELSE {}

RequiredNames(f) ==
  IF "required" \in DOMAIN f THEN {f.required[i] : i \in 1..Len(f.required)} ELSE {}

AddKey(v, k, w) == JDict((k :> w) @@ v.d)

RemoveKey(v, k) == JDict([x \in (DOMAIN v.d) \ {k} |-> v.d[x]])

KeyUniverse == PropNames \cup {<<"c">>}

AddedValues == {JNull, JInt(1), JStr(<<"a">>), JDict(<<"a">> :> JNull)}

\* the last call is on an object: validate_response of a dict, or the object branch of
\* _validate_property (a fragment of type object without anyOf) on a dict
ObjectCall ==
  \/ IsValidateResponse /\ call.response.kind = "dict"
  \/ /\ IsValidateProperty
     /\ call.value.kind = "dict"
     /\ "type" \in DOMAIN call.schema
     /\ call.schema.type = "object"
     /\ "anyOf" \notin DOMAIN call.schema

\* the call repeated on the object v
Revalidated(v) ==
  IF IsValidateResponse
  THEN ValidateResponse(v, call.schema)
  ELSE Returned(ValidateProperty(call.name, v, call.schema))

ObjectOfCall == IF IsValidateResponse THEN call.response ELSE call.value

\* adding key k (with any value) to the object, or removing it, leaves the result alone
KeyIgnored(k) ==
  /\ Revalidated(RemoveKey(ObjectOfCall, k)) = ret
  /\ \A w \in AddedValues : Revalidated(AddKey(ObjectOfCall, k, w)) = ret

\* C8 as stated: adding or removing a key that `properties` does not declare never
\* changes the error list of the object.
C8_Original ==
  ObjectCall => \A k \in KeyUniverse \ DeclaredNames(call.schema) : KeyIgnored(k)

\* C8, amended: adding or removing a key that is neither declared in `properties` nor
\* listed in `required` never changes the error list of the object (a key listed in
\* `required` decides the "Missing required property" error even when `properties`
\* does not declare it).
C8_UndeclaredIgnored ==
  ObjectCall =>
    \A k \in KeyUniverse \ (DeclaredNames(call.schema) \cup RequiredNames(call.schema)) :
      KeyIgnored(k)

\* an object that carries an undeclared key next to a declared one that has errors
C8_Witness ==
  /\ IsValidateProperty
  /\ ObjectCall
  /\ DeclaredNames(call.schema) = {<<"a">>}
  /\ RequiredNames(call.schema) = {<<"a">>}
  /\ DOMAIN call.value.d = {<<"a">>, <<"c">>}
  /\ Len(ret.value) = 1

\* the errors alternative i of the called fragment's anyOf yields for the called value
AlternativeErrors(i) == ValidateProperty(call.name, call.value, call.schema.anyOf[i])

AnyOfCall ==
  IsValidateProperty /\ call.value # JNull /\ "anyOf" \in DOMAIN call.schema

Succeeding == {i \in 1..Len(call.schema.anyOf) : AlternativeErrors(i) = << >>}

\* C9: once an alternative yields zero errors the anyOf check contributes nothing (the
\* result is the type-dispatch errors alone): the errors of the failed alternatives
\* before it are discarded, and the alternatives after it do not matter, whatever
\* they are.
C9_AnyOfShortCircuit ==
  (AnyOfCall /\ Succeeding # {}) =>
    LET k == First(Succeeding)
        upto == SubSeq(call.schema.anyOf, 1, k)
    IN  /\ ret.value = TypeDispatch(call.name, call.value, call.schema)
        /\ \A later \in {<< >>} \cup {<<alt>> : alt \in Alternatives} :
             ValidateProperty(call.name, call.value,
                              [call.schema EXCEPT !.anyOf = upto \o later]) = ret.value

\* the first alternative fails, the second succeeds, and nothing is reported
C9_Witness ==
  /\ AnyOfCall
  /\ Len(call.schema.anyOf) >= 2
  /\ AlternativeErrors(1) # << >>
  /\ First(Succeeding \cup {Len(call.schema.anyOf) + 1}) = 2
  /\ ret.value = << >>

RECURSIVE AllAlternativeErrors(_)
AllAlternativeErrors(i) ==
  IF i > Len(call.schema.anyOf) THEN << >>
  ELSE AlternativeErrors(i) \o AllAlternativeErrors(i + 1)

RECURSIVE SumOfCounts(_)
SumOfCounts(i) ==
  IF i > Len(call.schema.anyOf) THEN 0
  ELSE Len(AlternativeErrors(i)) + SumOfCounts(i + 1)

\* C10: when every alternative yields an error, the anyOf check contributes the
\* summary "Property <path> does not match any allowed schemas" and then every error of
\* every alternative, in alternative order, each prefixed with "  - ": 1 + the sum of
\* the alternatives' error counts, after the type-dispatch errors.
C10_AnyOfExhaustive ==
  (AnyOfCall /\ Succeeding = {}) =>
    LET typed == TypeDispatch(call.name, call.value, call.schema)
        subs == AllAlternativeErrors(1)
    IN  /\ Len(ret.value) = Len(typed) + 1 + SumOfCounts(1)
        /\ SubSeq(ret.value, 1, Len(typed)) = typed
        /\ ret.value[Len(typed) + 1] = NoMatchSummary(call.name)
        /\ \A j \in 1..Len(subs) :
             ret.value[Len(typed) + 1 + j] = <<"  - ">> \o subs[j]

\* two failing alternatives, the first with two errors, the second with one
C10_Witness ==
  /\ AnyOfCall
  /\ Len(call.schema.anyOf) = 2
  /\ Len(AlternativeErrors(1)) = 2
  /\ Len(AlternativeErrors(2)) = 1
  /\ "type" \notin DOMAIN call.schema
  /\ Len(ret.value) = 4

\* the fragment of the call declares this type and no anyOf, and the value is not null
TypedCall(type) ==
  /\ IsValidateProperty
  /\ call.value # JNull
  /\ "type" \in DOMAIN call.schema
  /\ call.schema.type = type
  /\ "anyOf" \notin DOMAIN call.schema

\* twice the value of a JSON number (an int or a float)
TwiceOf(v) == IF v.kind = "int" THEN 2 * v.n ELSE v.twice

\* the one-element list of the error when the condition holds, the empty list otherwise
ErrorIf(condition, error) == IF condition THEN <<error>> ELSE << >>

LimitError(name, text, digits) == <<"Property ">> \o name \o <<text>> \o digits \o <<")">>

\* C11: for a fragment of type integer, a float-typed value yields "Property <path>
\* should be an integer" even when it is whole, an int-typed value does not, and in
\* either case the minimum error (iff value < minimum) and the maximum error (iff
\* value > maximum) follow, each on its own.
C11_IntegerStrictness ==
  (TypedCall("integer") /\ call.value.kind \in {"int", "float"}) =>
    ret.value =
      ErrorIf(call.value.kind = "float", ShouldBe(call.name, " should be an integer"))
      \o ErrorIf("minimum" \in DOMAIN call.schema
                   /\ TwiceOf(call.value) < TwiceOf(call.schema.minimum),
                 LimitError(call.name, " is too small (min: ", NumStr(call.schema.minimum)))
      \o ErrorIf("maximum" \in DOMAIN call.schema
                   /\ TwiceOf(call.value) > TwiceOf(call.schema.maximum),
                 LimitError(call.name, " is too large (max: ", NumStr(call.schema.maximum)))

\* the whole float 1.0 against an integer fragment with minimum 1.5
C11_Witness ==
  /\ TypedCall("integer")
  /\ call.value = JFloat(2)
  /\ "minimum" \in DOMAIN call.schema
  /\ call.schema.minimum = JFloat(3)
  /\ ret.value = <<ShouldBe(call.name, " should be an integer"),
                   <<"Property ", "x", " is too small (min: ", "1", ".", "5", ")">>>>

\* the text is local@domain.tld: one "@" with a non-empty local part before it, and
\* after it a domain that holds a "." with something on both sides
LooksLikeEmail(s) ==
  \E at \in 2..Len(s) :
    /\ s[at] = "@"
    /\ \A k \in 1..Len(s) : (s[k] = "@") => (k = at)
    /\ \E dot \in (at + 2)..(Len(s) - 1) : s[dot] = "."

\* the format error of a string fragment for the formats of the input space: "email" is
\* recognised, any other name in it is not
FormatError(name, s, fragment) ==
  ErrorIf(/\ "format" \in DOMAIN fragment
          /\ fragment.format = "email"
          /\ ~LooksLikeEmail(s),
          ShouldBe(name, " should be a valid email address"))

\* C12: for a fragment of type string, a non-string value yields exactly "Property
\* <path> should be a string"; a string value yields, in this order and each on its own,
\* the format error, the "too short" error and the "too long" error.
C12_StringBranch ==
  TypedCall("string") =>
    IF call.value.kind # "str"
    THEN ret.value = <<ShouldBe(call.name, " should be a string")>>
    ELSE ret.value =
           FormatError(call.name, call.value.s, call.schema)
           \o ErrorIf("minLength" \in DOMAIN call.schema
                        /\ Len(call.value.s) < call.schema.minLength,
                      LimitError(call.name, " is too short (min: ",
                                 IntStr(call.schema.minLength)))
           \o ErrorIf("maxLength" \in DOMAIN call.schema
                        /\ Len(call.value.s) > call.schema.maxLength,
                      LimitError(call.name, " is too long (max: ",
                                 IntStr(call.schema.maxLength)))

\* "abcd" against {type: string, format: email, maxLength: 3}: the format error, then
\* the length error
C12_Witness ==
  /\ TypedCall("string")
  /\ call.value = JStr(<<"a", "b", "c", "d">>)
  /\ ret.value = <<ShouldBe(call.name, " should be a valid email address"),
                   <<"Property ", "x", " is too long (max: ", "3", ")">>>>

\* "<path>[i]" for a zero-based index below ten
ElementPath(name, i) ==
  name \o <<"[", <<"0", "1", "2", "3", "4", "5", "6", "7", "8", "9">>[i + 1], "]">>

\* the errors of the first n elements of the array of the call, in index order
RECURSIVE ElementErrorsUpTo(_)
ElementErrorsUpTo(n) ==
  IF n = 0 THEN << >>
  ELSE ElementErrorsUpTo(n - 1)
       \o ValidateProperty(ElementPath(call.name, n - 1), call.value.items[n],
                           call.schema.items)

\* C13: for an array fragment with items and an array value, the result is the errors of
\* every element in index order, each validated under "<path>[i]", then the minItems
\* error, then the maxItems error.
C13_ArrayItems ==
  (TypedCall("array") /\ call.value.kind = "list" /\ "items" \in DOMAIN call.schema) =>
    ret.value =
      ElementErrorsUpTo(Len(call.value.items))
      \o ErrorIf("minItems" \in DOMAIN call.schema
                   /\ Len(call.value.items) < call.schema.minItems,
                 LimitError(call.name, " has too few items (min: ",
                            IntStr(call.schema.minItems)))
      \o ErrorIf("maxItems" \in DOMAIN call.schema
                   /\ Len(call.value.items) > call.schema.maxItems,
                 LimitError(call.name, " has too many items (max: ",
                            IntStr(call.schema.maxItems)))

\* three elements of which the first and the last are invalid: one error for x[0], one
\* for x[2], then the maxItems error
C13_Witness ==
  /\ TypedCall("array")
  /\ call.value = JList(<<JInt(1), JStr(<<"a", "b", "c", "d">>), JNull>>)
  /\ call.schema = [type |-> "array", items |-> [type |-> "string", minLength |-> 2],
                    maxItems |-> 1]
  /\ ret.value = <<<<"Property ", "x", "[", "0", "]", " should be a string">>,
                   <<"Property ", "x", "[", "2", "]", " cannot be null">>,
                   <<"Property ", "x", " has too many items (max: ", "1", ")">>>>

\* the `properties` and the `required` of a fragment, empty when the key is absent
PropertiesOf(f) == IF "properties" \in DOMAIN f THEN f.properties ELSE << >>

RequiredOf(f) == IF "required" \in DOMAIN f THEN f.required ELSE << >>

\* the errors of the first n declared properties that are keys of the mapping d, each
\* validated under the path PathOf(its name)
RECURSIVE PresentPropertyErrors(_, _, _, _)
PresentPropertyErrors(PathOf(_), d, properties, n) ==
  IF n = 0 THEN << >>
  ELSE PresentPropertyErrors(PathOf, d, properties, n - 1)
       \o (IF properties[n].name \in DOMAIN d
           THEN ValidateProperty(PathOf(properties[n].name), d[properties[n].name],
                                 properties[n].spec)
           ELSE << >>)

\* one Missing(name) error for each of the first n required names that is not a key of d
RECURSIVE MissingErrors(_, _, _, _)
MissingErrors(Missing(_), d, required, n) ==
  IF n = 0 THEN << >>
  ELSE MissingErrors(Missing, d, required, n - 1)
       \o ErrorIf(required[n] \notin DOMAIN d, Missing(required[n]))

\* C14: for a mapping value and a fragment of type object, the result is the errors of
\* every declared property that is a key of the value, in declaration order and under
\* "<path>.<name>", followed by one "Missing required property <path>.<name>" for each
\* required name that is not a key; a key present with a null value is not missing.
C14_ObjectBranch ==
  (TypedCall("object") /\ call.value.kind = "dict") =>
    LET NestedPath(n) == call.name \o <<".">> \o n
        NestedMissing(n) == <<"Missing required property ">> \o call.name \o <<".">> \o n
    IN ret.value =
         PresentPropertyErrors(NestedPath, call.value.d, PropertiesOf(call.schema),
                               Len(PropertiesOf(call.schema)))
         \o MissingErrors(NestedMissing, call.value.d, RequiredOf(call.schema),
                          Len(RequiredOf(call.schema)))

\* {a: null} with a required and declared (not nullable), b required and absent: a is
\* validated, not reported missing, and the error for b comes last
C14_Witness ==
  /\ TypedCall("object")
  /\ call.value = JDict(<<"a">> :> JNull)
  /\ RequiredOf(call.schema) = <<<<"b">>, <<"a">>>>
  /\ ret.value = <<<<"Property ", "x", ".", "a", " cannot be null">>,
                   <<"Missing required property ", "x", ".", "b">>>>

\* C15: for a mapping response, validate_response returns first one "Missing required
\* property: <name>" for each required name that is not a key of the response, in list
\* order, and then, for each declared property in declaration order that is a key, the
\* errors of _validate_property called with the bare property name as path.
C15_ResponseOrder ==
  (IsValidateResponse /\ call.response.kind = "dict") =>
    LET BarePath(n) == n
        RootMissing(n) == <<"Missing required property: ">> \o n
    IN ret = Returned(
         MissingErrors(RootMissing, call.response.d, RequiredOf(call.schema),
                       Len(RequiredOf(call.schema)))
         \o PresentPropertyErrors(BarePath, call.response.d, PropertiesOf(call.schema),
                                  Len(PropertiesOf(call.schema))))

\* {b: 1} with a required and b declared boolean: the missing error, then b's type error
C15_Witness ==
  /\ IsValidateResponse
  /\ call.response = JDict(<<"b">> :> JInt(1))
  /\ ret = Returned(<<<<"Missing required property: ", "a">>,
                      <<"Property ", "b", " should be a boolean">>>>)

\* the root fragment cut down to the two keys validate_response reads
RootChecksOnly(f) == [k \in DOMAIN f \cap {"required", "properties"} |-> f[k]]

\* C16: validate_response reads only `required` and `properties` of the root fragment:
\* the result is the one of the fragment cut down to these two keys, and a root fragment
\* with neither of them gives [] for every response body.
C16_RootNotEvaluated ==
  IsValidateResponse =>
    /\ ret = ValidateResponse(call.response, RootChecksOnly(call.schema))
    /\ (DOMAIN call.schema \cap {"required", "properties"} = {}) => (ret = Returned(<< >>))

\* a string body against the root fragment {type: array, items: {type: string}}
C16_Witness ==
  /\ IsValidateResponse
  /\ call.response = JStr(<<"a">>)
  /\ call.schema = [type |-> "array", items |-> [type |-> "string"]]
  /\ ret = Returned(<< >>)

\* the JSON kind a declared type asks for
KindOfType(type) ==
  CASE type = "boolean" -> "bool"
    [] type = "array" -> "list"
    [] type = "object" -> "dict"

TypeErrorTail(type) ==
  CASE type = "boolean" -> " should be a boolean"
    [] type = "array" -> " should be an array"
    [] type = "object" -> " should be an object"

\* C17: for a fragment of type boolean, array or object, a non-null value of another
\* kind (for boolean the numbers 0 and 1 included) yields exactly the one type error, and
\* no element, property, required or item-count error.
C17_WrongKindOneError ==
  \A type \in {"boolean", "array", "object"} :
    (TypedCall(type) /\ call.value.kind # KindOfType(type)) =>
      ret.value = <<ShouldBe(call.name, TypeErrorTail(type))>>

\* the number 1 against a boolean fragment; a string against an array fragment with
\* minItems is the same case for arrays
C17_Witness ==
  /\ TypedCall("boolean")
  /\ call.value = JInt(1)
  /\ ret.value = <<<<"Property ", "x", " should be a boolean">>>>

\* the fragment without one of its keys
Without(f, key) == [k \in DOMAIN f \ {key} |-> f[k]]

\* C18: when a fragment declares both type and anyOf, a non-null value gets the errors
\* of the type dispatch (the fragment without its anyOf) followed by the errors of the
\* anyOf alone, both in full: a type error is kept when an alternative accepts the value,
\* and the anyOf summary is kept when the type accepts it.
C18_TypeThenAnyOf ==
  (/\ IsValidateProperty
   /\ call.value # JNull
   /\ "type" \in DOMAIN call.schema
   /\ "anyOf" \in DOMAIN call.schema)
  =>
  ret.value = ValidateProperty(call.name, call.value, Without(call.schema, "anyOf"))
              \o ValidateProperty(call.name, call.value, [anyOf |-> call.schema.anyOf])

\* "a" against {type: string, minLength: 2, anyOf: [{type: integer}]}: the length error
\* of the type dispatch, then the summary and the alternative's error
C18_Witness ==
  /\ IsValidateProperty
  /\ call.value = JStr(<<"a">>)
  /\ call.schema = [type |-> "string", minLength |-> 2, anyOf |-> <<[type |-> "integer"]>>]
  /\ ret.value = <<<<"Property ", "x", " is too short (min: ", "2", ")">>,
                   <<"Property ", "x", " does not match any allowed schemas">>,
                   <<"  - ", "Property ", "x", " should be a number">>>>

\* two method names that differ at most in the case of their letters
SameLetters(m1, m2) ==
  /\ Len(m1) = Len(m2)
  /\ \A k \in 1..Len(m1) :
       \/ m1[k] = m2[k]
       \/ \E i \in 1..26 : {m1[k], m2[k]} = {UpperLetters[i], LowerLetters[i]}

\* the lowercase key of the operation mappings that the method argument names
MethodKey(method) == CHOOSE key \in {Get, Post} : SameLetters(key, method)

\* C19: if the normalized path equals a registered template verbatim and that template's
\* operation mapping has the method (under its lowercase key), the lookup returns the
\* response schema of that operation; and every spelling of the method that differs only
\* in case (GET, get, Get) gives the same result.
C19_ExactMatch ==
  (IsLookup /\ HasPaths) =>
    /\ \A i \in 1..Len(schema.paths) :
         (/\ schema.paths[i].path = NormalizePath(call.path)
          /\ MethodKey(call.method) \in DOMAIN schema.paths[i].spec)
         => ret.value = ExtractResponseSchema(schema.paths[i].spec[MethodKey(call.method)])
    /\ \A method \in Methods :
         SameLetters(method, call.method)
         => GetSchemaForEndpoint(schema, method, call.path) = ret.value

\* "Get" on /a/s with /a/s registered after a template that matches it too: the schema
\* of /a/s is returned
C19_Witness ==
  /\ IsLookup
  /\ HasPaths
  /\ call.method = <<"G", "e", "t">>
  /\ Len(schema.paths) = 2
  /\ schema.paths[2].path = call.path
  /\ call.path = <<"/", "a", "/", "s">>
  /\ MatchPathPattern(call.path, schema.paths[1].path)
  /\ Get \in DOMAIN schema.paths[1].spec
  /\ Get \in DOMAIN schema.paths[2].spec
  /\ ret.value = ExtractResponseSchema(schema.paths[2].spec[Get])
  /\ ret.value # ExtractResponseSchema(schema.paths[1].spec[Get])

\* C20: the path is normalized before any matching: for every method and path p, the
\* lookup of p with a "/" appended gives the result of the lookup of p, and for p not
\* beginning with "/" the lookup of "/" + p gives the result of the lookup of p.
C20_Normalization ==
  IsLookup =>
    /\ GetSchemaForEndpoint(schema, call.method, call.path \o <<"/">>) = ret.value
    /\ (call.path = << >> \/ call.path[1] # "/")
       => GetSchemaForEndpoint(schema, call.method, <<"/">> \o call.path) = ret.value

\* a/s/ is not a listed path, /a/s/ and a/s are: both resolve to a schema
C20_Witness ==
  /\ IsLookup
  /\ call.path \in {<<"a", "/", "s">>, <<"/", "a", "/", "s", "/">>}
  /\ ret.value # None

\* the position of the "}" closing the placeholder that opens at i, 0 when there is
\* none with a name in between
ClosingBrace(template, i) ==
  IF template[i] # "{" THEN 0
  ELSE LET after == {k \in (i + 2)..Len(template) :
                       template[k] = "}" /\ \A m \in (i + 1)..(k - 1) : template[m] # "}"}
       IN  IF after = {} THEN 0 ELSE CHOOSE k \in after : TRUE

\* the template read as the claims read it, against the whole of the path: a placeholder
\* stands for a non-empty string without "/", every other character stands for itself
RECURSIVE TemplateMatches(_, _, _, _)
TemplateMatches(template, i, path, j) ==
  IF i > Len(template) THEN j = Len(path) + 1
  ELSE IF ClosingBrace(template, i) > 0
       THEN \E e \in j..Len(path) :
              /\ \A m \in j..e : path[m] # "/"
              /\ TemplateMatches(template, ClosingBrace(template, i) + 1, path, e + 1)
       ELSE /\ j <= Len(path)
            /\ path[j] = template[i]
            /\ TemplateMatches(template, i + 1, path, j + 1)

\* no template of the loaded document has a "." among its characters
PlainTemplates ==
  \A i \in 1..Len(schema.paths) :
    \A k \in 1..Len(schema.paths[i].path) : schema.paths[i].path[k] # "."

\* a template equal to the normalized path of the call has the method
ExactApplies ==
  \E i \in 1..Len(schema.paths) :
    /\ schema.paths[i].path = NormalizePath(call.path)
    /\ MethodKey(call.method) \in DOMAIN schema.paths[i].spec

\* the templates that match the normalized path of the call and have the method
ScanHits ==
  {i \in 1..Len(schema.paths) :
     /\ TemplateMatches(schema.paths[i].path, 1, NormalizePath(call.path), 1)
     /\ MethodKey(call.method) \in DOMAIN schema.paths[i].spec}

NoJsonBody(method_spec) ==
  \/ "responses" \notin DOMAIN method_spec
  \/ /\ ~DeclaresJsonSchema(method_spec.responses, "200")
     /\ ~DeclaresJsonSchema(method_spec.responses, "201")

\* the templates that are the normalized path of the call or match it, and have the method
Resolvable ==
  {i \in 1..Len(schema.paths) :
     /\ \/ schema.paths[i].path = NormalizePath(call.path)
        \/ MatchPathPattern(NormalizePath(call.path), schema.paths[i].path)
     /\ MethodKey(call.method) \in DOMAIN schema.paths[i].spec}

\* the lookup of the call has nothing to find: no document or no paths in it, no
\* template for the path that has the method, or only operations without a JSON body
NothingToFind ==
  \/ ~HasPaths
  \/ \A i \in Resolvable : NoJsonBody(schema.paths[i].spec[MethodKey(call.method)])

\* C22: a lookup returns and never raises, and when there is nothing to find (no
\* document loaded, no template matching the path, no matching template with the method,
\* neither "200" nor "201" declaring a JSON body schema) it returns None; so does
\* _extract_response_schema on an operation without a JSON body.
C22_AbsentNotError ==
  /\ IsLookup => (ret.status = "return" /\ (NothingToFind => ret.value = None))
  /\ IsExtract => (ret.status = "return"
                   /\ (NoJsonBody(call.method_spec) => ret.value = None))

IsFormatCheck == call.op = "_validate_string_format"

\* \s, as the claims name it
Blank == {" ", "\t", "\n", "\r", "\f"}

\* http:// or https:// , then a character that is neither blank nor one of / $ . ? # ,
\* then characters that are not blank, up to the end of the text
UrlAsStated(s) ==
  \E start \in {8, 9} :
    /\ Len(s) >= start
    /\ \/ start = 8 /\ SubSeq(s, 1, 7) = <<"h", "t", "t", "p", ":", "/", "/">>
       \/ start = 9 /\ SubSeq(s, 1, 8) = <<"h", "t", "t", "p", "s", ":", "/", "/">>
    /\ s[start] \notin Blank \cup {"/", "$", ".", "?", "#"}
    /\ \A k \in (start + 1)..Len(s) : s[k] \notin Blank

\* C23: for format uri or url a text yields no error iff it starts with http:// or
\* https://, followed by at least one character that is neither whitespace nor one of
\* / $ . ? #, followed by zero or more non-whitespace characters; every other text
\* yields exactly "Property <path> should be a valid URL".
C23_UrlFormat ==
  (IsFormatCheck /\ call.format_type \in {"uri", "url"}) =>
    ret.value = IF UrlAsStated(call.value)
                THEN << >>
                ELSE <<ShouldBe(call.name, " should be a valid URL")>>

Letters == LowerAlpha \cup UpperAlpha

\* the whole text is a non-empty local part over [a-zA-Z0-9._%+-], "@", and a domain
\* over [a-zA-Z0-9.-] whose last "." is followed by two or more letters and by nothing
\* else
EmailAsStated(s) ==
  \E at \in 2..Len(s) :
    \E dot \in (at + 2)..(Len(s) - 2) :
      /\ \A k \in 1..(at - 1) : s[k] \in Letters \cup Digit \cup {".", "_", "%", "+", "-"}
      /\ s[at] = "@"
      /\ \A k \in (at + 1)..(dot - 1) : s[k] \in Letters \cup Digit \cup {".", "-"}
      /\ s[dot] = "."
      /\ \A k \in (dot + 1)..Len(s) : s[k] \in Letters

\* C24: for format email a text yields no error iff it consists entirely of a non-empty
\* local part over [a-zA-Z0-9._%+-], "@", and a domain with at least one dot that ends
\* in a top-level label of two or more letters, nothing following; every other text
\* yields exactly "Property <path> should be a valid email address".
C24_EmailFormat ==
  (IsFormatCheck /\ call.format_type = "email") =>
    ret.value = IF EmailAsStated(call.value)
                THEN << >>
                ELSE <<ShouldBe(call.name, " should be a valid email address")>>

\* C27: every registered template without placeholders is reachable by its own string:
\* when the path of the call is such a template and its operation mapping has the
\* method, the lookup returns the response schema of that template's operation,
\* templates registered with a trailing slash included.
C27_OwnStringReachable ==
  (IsLookup /\ HasPaths) =>
    \A i \in 1..Len(schema.paths) :
      (/\ schema.paths[i].path = call.path
       /\ \A k \in 1..Len(call.path) : call.path[k] # "{"
       /\ MethodKey(call.method) \in DOMAIN schema.paths[i].spec)
      => ret.value = ExtractResponseSchema(schema.paths[i].spec[MethodKey(call.method)])

IsMatch == call.op = "_match_path_pattern"

\* the positions of the "/" of a path, and its segments: what lies between them
SlashesOf(s) == {k \in 1..Len(s) : s[k] = "/"}

NumSegments(s) == Cardinality(SlashesOf(s)) + 1

\* the position of the n-th "/", 0 for n = 0 and one past the end for n past the last
NthSlash(s, n) ==
  IF n = 0 THEN 0
  ELSE IF n > Cardinality(SlashesOf(s)) THEN Len(s) + 1
  ELSE CHOOSE k \in SlashesOf(s) : Cardinality({j \in SlashesOf(s) : j <= k}) = n

SegmentOf(s, n) == SubSeq(s, NthSlash(s, n - 1) + 1, NthSlash(s, n) - 1)

IsPlaceholder(segment) ==
  /\ Len(segment) >= 3
  /\ segment[1] = "{"
  /\ segment[Len(segment)] = "}"
  /\ \A k \in 2..(Len(segment) - 1) : segment[k] \notin {"{", "}"}

\* C28: _match_path_pattern(actual, template) is true only if both have the same number
\* of "/"-separated segments, every placeholder segment of the template faces a
\* non-empty segment of actual, and every literal segment of the template equals the
\* segment of actual it faces, character for character.
C28_SegmentwiseMatch ==
  (IsMatch /\ ret = Returned(TRUE)) =>
    /\ NumSegments(call.actual_path) = NumSegments(call.schema_path)
    /\ \A n \in 1..NumSegments(call.schema_path) :
         IF IsPlaceholder(SegmentOf(call.schema_path, n))
         THEN SegmentOf(call.actual_path, n) # << >>
         ELSE SegmentOf(call.actual_path, n) = SegmentOf(call.schema_path, n)

\* a template equal to the normalized path of the call lacks the method
ExactLacksMethod ==
  \E i \in 1..Len(schema.paths) :
    /\ schema.paths[i].path = NormalizePath(call.path)
    /\ MethodKey(call.method) \notin DOMAIN schema.paths[i].spec

\* C29: when the normalized path equals a registered template verbatim but that
\* template's operation mapping lacks the method, the scan still runs: the result is the
\* schema of the first template, in stored order, that matches the path and has the
\* method, and None when there is none.
C29_ExactWithoutMethod ==
  (IsLookup /\ HasPaths /\ ExactLacksMethod) =>
    ret.value = IF Resolvable = {} THEN None
                ELSE ExtractResponseSchema(
                       schema.paths[First(Resolvable)].spec[MethodKey(call.method)])

\* get /a/s with /a/s registered for post only, and after it a placeholder template
\* that matches /a/s and has get
C29_Witness ==
  /\ IsLookup
  /\ HasPaths
  /\ ExactLacksMethod
  /\ call.method = Get
  /\ Len(schema.paths) = 2
  /\ schema.paths[1].path = call.path
  /\ DOMAIN schema.paths[1].spec = {Post}
  /\ Resolvable = {2}
  /\ ret.value = ExtractResponseSchema(schema.paths[2].spec[Get])
  /\ ret.value # None

\* the fragment of the call has an anyOf that lists no alternative
EmptyAnyOf ==
  /\ IsValidateProperty
  /\ "anyOf" \in DOMAIN call.schema
  /\ call.schema.anyOf = << >>

\* C30: a fragment whose anyOf list is empty rejects every non-null value: after the
\* errors of its type dispatch comes exactly the summary "Property <path> does not match
\* any allowed schemas", with no sub-errors; a null value is decided by nullable alone.
C30_EmptyAnyOf ==
  EmptyAnyOf =>
    IF call.value = JNull
    THEN ret.value = IF MarkedNullable(call.schema) THEN << >>
                     ELSE <<CannotBeNull(call.name)>>
    ELSE ret.value = ValidateProperty(call.name, call.value, Without(call.schema, "anyOf"))
                     \o <<NoMatchSummary(call.name)>>

\* a string against {anyOf: []}: the summary alone
C30_Witness ==
  /\ EmptyAnyOf
  /\ call.value = JStr(<<"a">>)
  /\ "type" \notin DOMAIN call.schema
  /\ ret.value = <<<<"Property ", "x", " does not match any allowed schemas">>>>

\* what the caller passed to a call: the call record without the position of the call
\* and without its local list of errors
Arguments(c) == [k \in DOMAIN c \ {"pc", "errors"} |-> c[k]]

Finished(t) == call[t] # Idle /\ call[t].pc = "done"

\* C25: validate_response, _validate_property and get_schema_for_endpoint never change
\* the loaded schema document, the fragment passed in or the input value: no step of any
\* call changes the document, and the arguments of a call under way stay what they were.
C25_NoMutation ==
  [][/\ schema' = schema
     /\ \A t \in Threads :
          (call[t] # Idle /\ call'[t] # Idle) => Arguments(call'[t]) = Arguments(call[t])]_vars

\* a lookup resolved by the scan has returned in one thread while a validate_response
\* in the other has collected a missing-required error and is at its properties loop
C25_Witness ==
  /\ schema # None
  /\ Finished(1)
  /\ call[1].op = Lookup
  /\ call[1].path = <<"/", "b", "/", "s">>
  /\ ret[1] = Returned(SchemaB)
  /\ call[2].op = "validate_response"
  /\ call[2].pc = "properties"
  /\ call[2].errors # << >>

\* the result of the call when it is run alone on the loaded document
AloneResult(c) ==
  CASE c.op = Lookup -> GetSchemaForEndpointResult(schema, c.method, c.path)
    [] c.op = "validate_response" -> ValidateResponse(c.response, c.schema)
    [] c.op = "_validate_property" -> Returned(ValidateProperty(c.name, c.value, c.schema))

\* C26: under every interleaving of the steps of concurrent calls on one validator, a
\* call that has returned has the result it has when run alone, and two calls with the
\* same arguments have the same result, element for element.
C26_NonInterference ==
  \A t \in Threads :
    Finished(t) =>
      /\ ret[t] = AloneResult(call[t])
      /\ \A u \in Threads :
           (Finished(u) /\ Arguments(call[u]) = Arguments(call[t])) => ret[u] = ret[t]

\* the same validate_response call made in two threads, both returned with the same two
\* errors
C26_Witness ==
  /\ Finished(1)
  /\ Finished(2)
  /\ call[1].op = "validate_response"
  /\ Arguments(call[1]) = Arguments(call[2])
  /\ ret[1] = ret[2]
  /\ ret[1] = Returned(<<<<"Missing required property: ", "b">>,
                         <<"Property ", "a", " should be a string">>>>)

=============================================================================
